---- MODULE Spec2Model ----
(***************************************************************************)
(* check-usage.py: a one-shot command line client that asks an accounting  *)
(* REST backend for job, allocation and allocation-user records and prints *)
(* usage summaries for a user and/or an account.                           *)
(*                                                                         *)
(* The script is one thread of control.  A state of the model is the       *)
(* script's position (pc), its globals and locals, and what it has done so *)
(* far to the outside world: the requests it has sent and the lines it has *)
(* printed.  Every backend answer is drawn nondeterministically in the     *)
(* action that sends the request.                                          *)
(*                                                                         *)
(* Encodings                                                               *)
(*   - a user name is a string, "" standing for None / empty (both falsy); *)
(*   - an account name is a sequence of characters, so that startswith()   *)
(*     is computed; << >> stands for None / empty;                         *)
(*   - a JSON scalar is a record [t, v]: t is "num", "null", "str" (a      *)
(*     non-numeric string) or "missing" (the key is absent);               *)
(*   - a date string is a record [fmt, y, mo, d, s, frac]: fmt tells which *)
(*     strptime format the text matches, s is the second of the day, and   *)
(*     frac tells whether a ".ffffff" suffix follows;                      *)
(*   - stdout is kept as the last line printed (stdout_last) and the set   *)
(*     of the kinds of line printed so far (stdout_kinds);                 *)
(*   - the requests sent are kept as the set of [endpoint, by] pairs sent  *)
(*     so far (reqlog), by being the function that sent it.                *)
(***************************************************************************)
EXTENDS Integers, Sequences, FiniteSets, TLC

VARIABLES
    args,               \* argparse result + environment: user, account, expand, start, end, mode, now
    pc,                 \* position of the script
    status,             \* "running" | "returned" | "exited" | "raised"
    exitcode,           \* process exit status once status # "running"
    start_arg,          \* main: start_arg
    end_arg,            \* main: end_arg
    default_start_used, \* main: default_start_used
    times,              \* globals START_TIME, END_TIME, START_TIME_READABLE, END_TIME_READABLE
    user,               \* main: user (after the getpass default)
    allocation,         \* process_account_query: allocation
    attr,               \* process_account_query: response_attr[0]
    account_usage,      \* process_account_query: account_usage
    usage,              \* the last get_cpu_usage call: who called, with what, and what it returned
    page,               \* paginate_requests: page
    results,            \* paginate_requests: results
    served,             \* paginate_requests: the responses received in this call, in order
    pg_caller,          \* who called paginate_requests
    user_list,          \* the rest of the list a for loop iterates over
    stdout_last,        \* the last line printed
    stdout_kinds,       \* the kinds of the lines printed so far
    reqlog              \* the requests sent so far

vars == <<args, pc, status, exitcode, start_arg, end_arg, default_start_used, times,
          user, allocation, attr, account_usage, usage, page, results, served,
          pg_caller, user_list, stdout_last, stdout_kinds, reqlog>>

(***************************************************************************)
(* Bounds                                                                  *)
(***************************************************************************)
\* The backend's listings have at most MaxPages pages: no page from MaxPages
\* on carries a `next` cursor.
MaxPages == 3
\* Largest usage amount drawn for the percentage computation.
MaxUsage == 110

(***************************************************************************)
(* JSON scalars                                                            *)
(***************************************************************************)
Num(n) == [t |-> "num", v |-> n]
Null == [t |-> "null", v |-> 0]
Str == [t |-> "str", v |-> 0]
Missing == [t |-> "missing", v |-> 0]

\* dict.get(key, default): the default only when the key is absent.
Get(value, default) == IF value.t = "missing" THEN default ELSE value

\* Whether f"{x:.2f}" formats x: only a number does; None and str raise.
Formattable(value) == value.t = "num"

(***************************************************************************)
(* Account names                                                           *)
(***************************************************************************)
NoAccount == << >>
NoUser == ""

\* str.startswith
StartsWith(s, p) == Len(s) >= Len(p) /\ SubSeq(s, 1, Len(p)) = p

MODE_MYBRC == "mybrc"
MODE_MYLRC == "mylrc"

\* process_account_query line 222
UsesAttributeUsageAcOnly(account) == StartsWith(account, <<"a","c","_">>)
UsesAttributeUsage(account) ==
    StartsWith(account, <<"a","c","_">>) \/ StartsWith(account, <<"c","o","_">>)

(***************************************************************************)
(* Date strings and timestamps                                             *)
(***************************************************************************)
Date(fmt, y, mo, d, s, frac) ==
    [fmt |-> fmt, y |-> y, mo |-> mo, d |-> d, s |-> s, frac |-> frac]
Complete(y, mo, d, s) == Date("complete", y, mo, d, s, FALSE)
Minimal(y, mo, d) == Date("minimal", y, mo, d, 0, FALSE)
NoDate == Date("none", 0, 0, 0, 0, FALSE)

\* Whether datetime.strptime accepts the text under one of the two formats.
Parses(ds) == ds.fmt \in {"complete", "minimal"} /\ ~ds.frac

\* check_valid_date: argparse accepts the text iff one of the formats matches.
check_valid_date(ds) == Parses(ds)

IsLeap(y) == y % 4 = 0 /\ (y % 100 # 0 \/ y % 400 = 0)

DaysBeforeYear(y) ==
    LET p == y - 1 IN p * 365 + (p \div 4) - (p \div 100) + (p \div 400)

DaysInMonth(y, mo) ==
    IF mo = 2 THEN (IF IsLeap(y) THEN 29 ELSE 28)
    ELSE IF mo \in {4, 6, 9, 11} THEN 30 ELSE 31

DaysBeforeMonth(y, mo) ==
    <<0, 31, 59, 90, 120, 151, 181, 212, 243, 273, 304, 334>>[mo]
        + (IF mo > 2 /\ IsLeap(y) THEN 1 ELSE 0)

\* date.toordinal()
Ordinal(y, mo, d) == DaysBeforeYear(y) + DaysBeforeMonth(y, mo) + d

\* to_timestamp: parse, take the naive value as UTC, seconds since the epoch.
to_timestamp(ds) == (Ordinal(ds.y, ds.mo, ds.d) - 719163) * 86400 + ds.s

\* to_timestring: the UTC calendar fields of the instant, then a literal 'Z'.
to_timestring(ts) ==
    LET n == (ts \div 86400) + 719163
        y == CHOOSE yy \in 1970..2037 : DaysBeforeYear(yy) < n /\ n <= DaysBeforeYear(yy + 1)
        r == n - DaysBeforeYear(y)
        mo == CHOOSE m \in 1..12 :
                  DaysBeforeMonth(y, m) < r /\ r <= DaysBeforeMonth(y, m) + DaysInMonth(y, m)
    IN Date("completeZ", y, mo, r - DaysBeforeMonth(y, mo), ts % 86400, FALSE)

\* main lines 302-307
BreakMonth(mode) == IF mode = MODE_MYBRC THEN 6 ELSE 10
DefaultStart(mode, now) ==
    LET year == IF now.mo >= BreakMonth(mode) THEN now.y ELSE now.y - 1
    IN Complete(year, BreakMonth(mode), 1, 0)

\* get_project_start line 163
StripFraction(ds) == [ds EXCEPT !.frac = FALSE]

(***************************************************************************)
(* Inputs: the command line, the environment and the backend's answers     *)
(***************************************************************************)
AC_P == <<"a","c","_","p">>
CO_P == <<"c","o","_","p">>
FC_P == <<"f","c","_","p">>
Accounts == {AC_P, CO_P, FC_P}
Modes == {MODE_MYBRC, MODE_MYLRC}

\* datetime.now(timezone.utc), to the second.
NowAutumn == Complete(2026, 11, 6, 39360)
NowSpring == Complete(2026, 5, 6, 39360)

\* Texts given to -s / -e; argparse keeps those check_valid_date accepts.
CliTexts ==
    { Complete(2026, 10, 1, 0), Minimal(2026, 10, 1), Complete(2027, 1, 1, 0),
      Date("bad", 0, 0, 0, 0, FALSE) }
CliDates == {ds \in CliTexts : check_valid_date(ds)}

Invocation(u, a, x, s, e, m, n) ==
    [user |-> u, account |-> a, expand |-> x, start |-> s, end |-> e, mode |-> m, now |-> n]

\* The invocations drawn: every window without -E, and -E with the default window.
Invocations ==
    { Invocation(u, a, FALSE, s, e, m, n) :
        u \in {NoUser, "alice"}, a \in {NoAccount} \cup Accounts,
        s \in {NoDate} \cup CliDates, e \in {NoDate, Minimal(2026, 10, 1)},
        m \in Modes, n \in {NowAutumn, NowSpring} }
    \cup
    { Invocation(u, a, TRUE, NoDate, NoDate, m, NowAutumn) :
        u \in {NoUser, "alice"}, a \in {NoAccount} \cup Accounts, m \in Modes }

\* allocations/ : the list single_request returns ( << >> on any failure or no match).
StartDates ==
    { Date("missing", 0, 0, 0, 0, FALSE), Date("null", 0, 0, 0, 0, FALSE),
      Date("empty", 0, 0, 0, 0, FALSE), Date("bad", 0, 0, 0, 0, FALSE),
      Date("complete", 2019, 7, 1, 0, TRUE), Complete(2027, 2, 1, 0) }
AllocationResponses ==
    { << >> } \cup { <<[id |-> i, start_date |-> sd]>> : i \in {Num(7), Missing}, sd \in StartDates }

\* allocations/{id}/attributes/ : value is the granted total, usage the consumed one.
\* usage is "missing" (no key), "null", "novalue" (a dict without `value`) or "dict".
AttributeResponses ==
    { << >> } \cup
    { <<[value |-> v, usage |-> u.k, usage_value |-> u.v]>> :
        v \in {Num(1000), Str},
        u \in { [k |-> "missing", v |-> Missing], [k |-> "null", v |-> Missing],
                [k |-> "novalue", v |-> Missing], [k |-> "dict", v |-> Num(100)],
                [k |-> "dict", v |-> Num(0)] } }

\* jobs/ : "fail" is any transport, HTTP or JSON-decoding error, "notdict" a JSON
\* document that is not an object.
JobsResponse(kind, count, cpu, amount) ==
    [kind |-> kind, count |-> count, total_cpu_time |-> cpu, total_amount |-> amount]
JobsResponses ==
    { JobsResponse("fail", Missing, Missing, Missing),
      JobsResponse("notdict", Missing, Missing, Missing),
      JobsResponse("ok", Missing, Missing, Missing),
      JobsResponse("ok", Num(0), Num(0), Num(0)),
      JobsResponse("ok", Num(3), Num(12), Num(50)),
      JobsResponse("ok", Num(3), Null, Num(50)) }

\* allocation_users/ records.
AllocationUsers ==
    { [user |-> "bob", project |-> FC_P, status |-> "Active"],
      [user |-> "carol", project |-> NoAccount, status |-> "Removed"],
      [user |-> NoUser, project |-> AC_P, status |-> "Active"] }

\* One page of a paginated listing, as the backend answers request number p.
PageResponse(kind, res, next) == [kind |-> kind, results |-> res, next |-> next]
PageResponses(p) ==
    { PageResponse("fail", << >>, FALSE), PageResponse("notdict", << >>, FALSE) }
    \cup
    { PageResponse("ok", res, nx) :
        res \in { << >> } \cup { <<r>> : r \in AllocationUsers },
        nx \in (IF p < MaxPages THEN BOOLEAN ELSE {FALSE}) }

(***************************************************************************)
(* Helpers of the actions                                                  *)
(***************************************************************************)
Req(endpoint, by) == [endpoint |-> endpoint, by |-> by]

Sentinel == <<Num(-1), Num(-1), Num(-1)>>

\* get_cpu_usage lines 178-181 never reach line 189 with a non-object: .get raises.
get_cpu_usage_raises(resp) == resp.kind = "notdict"

get_cpu_usage_any_user(u, a, resp) ==
    IF resp.kind = "fail" /\ u # NoUser
    THEN <<Num(-1), Num(-1), Num(-1)>>
    ELSE LET response == IF resp.kind = "fail"
                         THEN JobsResponse("ok", Num(0), Num(0), Num(0))
                         ELSE resp
         IN <<Get(response.count, Num(0)), Get(response.total_cpu_time, Num(0)),
              Get(response.total_amount, Num(0))>>

\* get_cpu_usage: the triple returned for the backend's answer resp.
get_cpu_usage(u, a, resp) ==
    IF resp.kind = "fail" /\ u # NoUser /\ a = NoAccount
    THEN Sentinel
    ELSE LET response == IF resp.kind = "fail"
                         THEN JobsResponse("ok", Num(0), Num(0), Num(0))
                         ELSE resp
         IN <<Get(response.count, Num(0)), Get(response.total_cpu_time, Num(0)),
              Get(response.total_amount, Num(0))>>

UsageCall(by, u, a, resp) ==
    [by |-> by, user |-> u, account |-> a, failed |-> resp.kind = "fail",
     ret |-> get_cpu_usage(u, a, resp)]
NoUsageCall ==
    [by |-> "none", user |-> NoUser, account |-> NoAccount, failed |-> FALSE,
     ret |-> <<Missing, Missing, Missing>>]

\* process_user_query line 263
IsSentinel(ret) == ret[1] = Num(-1) /\ ret[2] = Num(-1) /\ ret[3] = Num(-1)

\* get_project_start, from the list the allocations lookup returned.
get_project_start(response) ==
    IF response = << >> THEN [kind |-> "none", date |-> NoDate]
    ELSE LET creation == response[1].start_date
         IN IF creation.fmt \in {"missing", "null"}
            THEN [kind |-> "exit", date |-> NoDate]
            ELSE [kind |-> "date", date |-> StripFraction(creation)]

\* Truthiness of the string get_project_start returned (main line 316).
IsStartDate(r) == r.kind = "date" /\ r.date.fmt # "empty"

\* main line 312
DefaultStartUsed(start, default_start) == start = default_start

\* main lines 339-344: what runs after process_user_query.
AfterUser == IF args.account # NoAccount THEN "account_query" ELSE "main_return"

\* Where a for loop over list goes: its body, or past the loop when the list is empty.
LoopOrReturn(list, body) == IF list = << >> THEN "main_return" ELSE body
UserLoopOr(list) == IF list = << >> THEN AfterUser ELSE "user_expand_loop"

InitLocals ==
    /\ status = "running"
    /\ exitcode = -1
    /\ start_arg = NoDate
    /\ end_arg = NoDate
    /\ default_start_used = FALSE
    /\ times = [set |-> FALSE, START_TIME |-> 0, END_TIME |-> 0,
                START_TIME_READABLE |-> NoDate, END_TIME_READABLE |-> NoDate]
    /\ user = NoUser
    /\ allocation = Missing
    /\ attr = << >>
    /\ account_usage = Missing
    /\ usage = NoUsageCall
    /\ page = 0
    /\ results = << >>
    /\ served = << >>
    /\ user_list = << >>
    /\ stdout_last = [kind |-> "none"]
    /\ stdout_kinds = {}
    /\ reqlog = {}

Init ==
    /\ args \in Invocations
    /\ pc = "main"
    /\ pg_caller = "none"
    /\ InitLocals

\* The lines of stdout, by kind.
Emit(line) ==
    /\ stdout_last' = line
    /\ stdout_kinds' = stdout_kinds \cup {line.kind}

\* sys.exit(1)
SysExit == status' = "exited" /\ exitcode' = 1 /\ pc' = "halt"
\* an exception nobody catches: traceback, exit status 1
Raise == status' = "raised" /\ exitcode' = 1 /\ pc' = "halt"

(***************************************************************************)
(* main, lines 297-317: defaults, then the allocation start-date lookup    *)
(***************************************************************************)
ResolveWindow ==
    /\ pc = "main" /\ status = "running"
    /\ LET default_start == DefaultStart(args.mode, args.now)
           start0 == IF args.start # NoDate THEN args.start ELSE default_start
           end0 == IF args.end # NoDate THEN args.end ELSE args.now
           dsu == DefaultStartUsed(start0, default_start)
           lookup == dsu /\ args.account # NoAccount
       IN \E r \in (IF lookup
                    THEN {get_project_start(resp) : resp \in AllocationResponses}
                    ELSE {[kind |-> "skipped", date |-> NoDate]}) :
            /\ end_arg' = end0
            /\ default_start_used' = dsu
            /\ reqlog' = IF lookup
                         THEN reqlog \cup {Req("allocations", "get_project_start")}
                         ELSE reqlog
            /\ start_arg' = IF IsStartDate(r) THEN r.date ELSE start0
            /\ IF r.kind = "exit"
               THEN /\ Emit([kind |-> "err_information_missing"])
                    /\ SysExit
               ELSE /\ UNCHANGED <<stdout_last, stdout_kinds, status, exitcode>>
                    /\ pc' = "validate"
    /\ UNCHANGED <<args, times, user, allocation, attr, account_usage, usage, page,
                   results, served, pg_caller, user_list>>

(***************************************************************************)
(* main, lines 320-337: the globals, the default user, the window check    *)
(***************************************************************************)
WindowRejectedNever(start, end) == FALSE
WindowRejectedReversed(start, end) == to_timestamp(start) < to_timestamp(end)
\* line 331
WindowRejected(start, end) == to_timestamp(start) > to_timestamp(end)

ValidateWindow ==
    /\ pc = "validate" /\ status = "running"
    /\ IF ~Parses(start_arg)
       THEN \* line 320: strptime raises ValueError
            /\ Raise
            /\ UNCHANGED <<times, user, stdout_last, stdout_kinds>>
       ELSE LET ts == to_timestamp(start_arg)
                te == to_timestamp(end_arg)
                u == IF args.user = NoUser /\ args.account = NoAccount
                     THEN "osuser" ELSE args.user
            IN /\ times' = [set |-> TRUE, START_TIME |-> ts, END_TIME |-> te,
                            START_TIME_READABLE |-> to_timestring(ts),
                            END_TIME_READABLE |-> to_timestring(te)]
               /\ user' = u
               /\ IF WindowRejected(start_arg, end_arg)
                  THEN /\ Emit([kind |-> "err_start_after_end", start |-> ts, end |-> te])
                       /\ SysExit
                  ELSE /\ IF to_timestamp(Minimal(2020, 6, 1)) > ts
                          THEN Emit([kind |-> "info_inaccurate"])
                          ELSE UNCHANGED <<stdout_last, stdout_kinds>>
                       /\ pc' = IF u # NoUser THEN "user_query" ELSE "account_query"
                       /\ UNCHANGED <<status, exitcode>>
    /\ UNCHANGED <<args, start_arg, end_arg, default_start_used, allocation, attr,
                   account_usage, usage, page, results, served, pg_caller, user_list,
                   reqlog>>

(***************************************************************************)
(* paginate_requests, lines 112-136                                        *)
(***************************************************************************)
\* line 135
NextPage(p) == p + 1

\* line 129: results.extend(response['results'])
ExtendFront(acc, new) == new \o acc
Extend(acc, new) == acc \o new

StartPaginate(by) ==
    /\ pc' = "paginate"
    /\ pg_caller' = by
    /\ page' = 1
    /\ results' = << >>
    /\ served' = << >>

\* One turn of the while loop: one request, then extend / break / next page.
PaginateStep ==
    /\ pc = "paginate" /\ status = "running"
    /\ \E resp \in PageResponses(page) :
         /\ reqlog' = reqlog \cup {Req("allocation_users", pg_caller)}
         /\ served' = Append(served, [page |-> page, resp |-> resp])
         /\ CASE resp.kind = "fail" ->
                   /\ pc' = "paginate_return"
                   /\ UNCHANGED <<results, page, status, exitcode>>
              [] resp.kind = "notdict" ->
                   \* line 128: a list has no .get
                   /\ Raise
                   /\ UNCHANGED <<results, page>>
              [] resp.kind = "ok" /\ resp.results = << >> ->
                   /\ pc' = "paginate_return"
                   /\ UNCHANGED <<results, page, status, exitcode>>
              [] OTHER ->
                   /\ results' = Extend(results, resp.results)
                   /\ IF resp.next
                      THEN page' = NextPage(page) /\ pc' = "paginate"
                      ELSE page' = page /\ pc' = "paginate_return"
                   /\ UNCHANGED <<status, exitcode>>
    /\ UNCHANGED <<args, start_arg, end_arg, default_start_used, times, user, allocation,
                   attr, account_usage, usage, pg_caller, user_list, stdout_last,
                   stdout_kinds>>

\* line 136: return results, to the for loop of the caller.
PaginateReturn ==
    /\ pc = "paginate_return" /\ status = "running"
    /\ user_list' = results
    /\ page' = 0
    /\ results' = << >>
    /\ served' = << >>
    /\ pc' = CASE pg_caller = "process_user_query" -> UserLoopOr(results)
              [] pg_caller = "process_account_query" ->
                     LoopOrReturn(results, "account_expand_loop")
              [] OTHER -> "halt"
    /\ UNCHANGED <<args, status, exitcode, start_arg, end_arg, default_start_used, times,
                   user, allocation, attr, account_usage, usage, pg_caller, stdout_last,
                   stdout_kinds, reqlog>>

(***************************************************************************)
(* process_user_query, lines 261-281                                       *)
(***************************************************************************)
\* lines 263-265: the caller's test for "user not found"
UserNotFound(ret) == IsSentinel(ret)

UserQuery ==
    /\ pc = "user_query" /\ status = "running"
    /\ \E resp \in JobsResponses :
         LET call == UsageCall("process_user_query", user, NoAccount, resp)
         IN /\ reqlog' = reqlog \cup {Req("jobs", "process_user_query")}
            /\ IF get_cpu_usage_raises(resp)
               THEN /\ Raise
                    /\ UNCHANGED <<usage, stdout_last, stdout_kinds, pg_caller, page,
                                   results, served>>
               ELSE /\ usage' = call
                    /\ IF UserNotFound(call.ret)
                       THEN /\ Emit([kind |-> "err_user_not_found", user |-> user])
                            /\ pc' = AfterUser
                            /\ UNCHANGED <<status, exitcode, pg_caller, page, results,
                                           served>>
                       ELSE IF ~Formattable(call.ret[2])
                       THEN \* line 268: {total_cpu:.2f}
                            /\ Raise
                            /\ UNCHANGED <<stdout_last, stdout_kinds, pg_caller, page,
                                           results, served>>
                       ELSE /\ Emit([kind |-> "user_usage", user |-> user,
                                     ret |-> call.ret])
                            /\ UNCHANGED <<status, exitcode>>
                            /\ IF args.expand
                               THEN StartPaginate("process_user_query")
                               ELSE /\ pc' = AfterUser
                                    /\ UNCHANGED <<pg_caller, page, results, served>>
    /\ UNCHANGED <<args, start_arg, end_arg, default_start_used, times, user, allocation,
                   attr, account_usage, user_list>>

\* lines 272-281: the body of the loop, for the first record left.
UserExpandItem ==
    /\ pc = "user_expand_loop" /\ status = "running" /\ user_list # << >>
    /\ \E resp \in JobsResponses :
         LET item == Head(user_list)
             allocation_account == item.project
             call == UsageCall("user_expand", user, allocation_account, resp)
         IN /\ reqlog' = reqlog \cup {Req("jobs", "user_expand")}
            /\ IF get_cpu_usage_raises(resp)
               THEN /\ Raise
                    /\ UNCHANGED <<usage, stdout_last, stdout_kinds, user_list>>
               ELSE /\ usage' = call
                    /\ IF ~Formattable(call.ret[2])
                       THEN /\ Raise
                            /\ UNCHANGED <<stdout_last, stdout_kinds, user_list>>
                       ELSE /\ Emit([kind |-> "user_expand", user |-> user,
                                     account |-> allocation_account,
                                     removed |-> item.status = "Removed",
                                     ret |-> call.ret])
                            /\ user_list' = Tail(user_list)
                            /\ pc' = UserLoopOr(Tail(user_list))
                            /\ UNCHANGED <<status, exitcode>>
    /\ UNCHANGED <<args, start_arg, end_arg, default_start_used, times, user, allocation,
                   attr, account_usage, page, results, served, pg_caller>>

(***************************************************************************)
(* process_account_query, lines 194-259                                    *)
(***************************************************************************)
ParseAllocationStrict(value) == value
\* lines 215-220: int(float(value)), None when the conversion raises.
ParseAllocation(value) == IF value.t = "num" THEN value ELSE Null

\* line 224: response_attr[0]['usage']['value'] raises KeyError
UsageKeyError(a) == a.usage \in {"missing", "novalue"}
\* line 224 raises TypeError: None is not subscriptable
UsageTypeError(a) == a.usage = "null"

\* float(x) raises for None and for a non-numeric string.
Floats(value) == value.t = "num"

\* lines 246-249: the percentage, as the fraction <<numerator, denominator>>,
\* denominator > 0.
Percentage(user_usage, acc_usage) ==
    IF ~Floats(acc_usage) THEN <<0, 1>>
    ELSE IF acc_usage.v = 0 THEN <<0, 1>>
    ELSE IF ~Floats(user_usage) THEN <<0, 1>>
    ELSE IF acc_usage.v > 0 THEN <<user_usage.v * 100, acc_usage.v>>
    ELSE <<-(user_usage.v * 100), -acc_usage.v>>

\* lines 251-256
ColourOfInclusive(p) ==
    IF p[1] < 75 * p[2] THEN "green"
    ELSE IF p[1] >= 100 * p[2] THEN "red"
    ELSE "yellow"
ColourOf(p) ==
    IF p[1] < 75 * p[2] THEN "green"
    ELSE IF p[1] > 100 * p[2] THEN "red"
    ELSE "yellow"

\* lines 257-259: the line of one member.
MemberLine(user_name, account, ret, acc_usage) ==
    LET percentage == Percentage(ret[3], acc_usage)
    IN [kind |-> "account_expand", user |-> user_name, account |-> account, ret |-> ret,
        account_usage |-> acc_usage, percentage |-> percentage,
        colour |-> ColourOf(percentage)]

\* main lines 341-344, then lines 195-206: the disclaimer and the allocation lookup.
AccountLookup ==
    /\ pc = "account_query" /\ status = "running"
    /\ \E response \in AllocationResponses :
         LET account == args.account
             said == IF StartsWith(account, <<"a","c","_">>)
                     THEN {"info_start_date"} ELSE {}
         IN /\ reqlog' = reqlog \cup {Req("allocations", "process_account_query")}
            /\ IF response = << >>
               THEN /\ stdout_last' = [kind |-> "err_account_not_found",
                                       account |-> account]
                    /\ stdout_kinds' = stdout_kinds \cup said
                                           \cup {"err_account_not_found"}
                    /\ pc' = "main_return"
                    /\ UNCHANGED <<status, exitcode>>
               ELSE /\ stdout_last' = IF said # {} THEN [kind |-> "info_start_date"]
                                      ELSE stdout_last
                    /\ stdout_kinds' = stdout_kinds \cup said
                    /\ IF response[1].id.t = "missing"
                       THEN Raise  \* line 206: KeyError
                       ELSE pc' = "account_attr" /\ UNCHANGED <<status, exitcode>>
    /\ UNCHANGED <<args, start_arg, end_arg, default_start_used, times, user, allocation,
                   attr, account_usage, usage, page, results, served, pg_caller,
                   user_list>>

\* lines 207-227: the Service Units attribute, the total, the ac_/co_ usage.
AccountAttr ==
    /\ pc = "account_attr" /\ status = "running"
    /\ \E response_attr \in AttributeResponses :
         /\ reqlog' = reqlog \cup {Req("attributes", "process_account_query")}
         /\ attr' = response_attr
         /\ IF response_attr = << >>
            THEN /\ Emit([kind |-> "err_backend", at |-> "no_attribute"])
                 /\ SysExit
                 /\ UNCHANGED <<allocation, account_usage>>
            ELSE LET a == response_attr[1]
                 IN /\ allocation' = ParseAllocation(a.value)
                    /\ IF ~UsesAttributeUsage(args.account)
                       THEN /\ pc' = "account_usage"
                            /\ UNCHANGED <<account_usage, status, exitcode, stdout_last,
                                           stdout_kinds>>
                       ELSE IF UsageKeyError(a)
                       THEN /\ Emit([kind |-> "err_backend", at |-> "no_usage"])
                            /\ SysExit
                            /\ UNCHANGED account_usage
                       ELSE IF UsageTypeError(a)
                       THEN /\ Raise
                            /\ UNCHANGED <<account_usage, stdout_last, stdout_kinds>>
                       ELSE /\ account_usage' = a.usage_value
                            /\ pc' = "account_usage"
                            /\ UNCHANGED <<status, exitcode, stdout_last, stdout_kinds>>
    /\ UNCHANGED <<args, start_arg, end_arg, default_start_used, times, user, usage,
                   page, results, served, pg_caller, user_list>>

\* lines 228-240: the job aggregate of the account, and the account's line.
AccountUsage ==
    /\ pc = "account_usage" /\ status = "running"
    /\ \E resp \in JobsResponses :
         LET account == args.account
             call == UsageCall("process_account_query", NoUser, account, resp)
             su == IF UsesAttributeUsage(account) THEN account_usage ELSE call.ret[3]
         IN /\ reqlog' = reqlog \cup {Req("jobs", "process_account_query")}
            /\ IF get_cpu_usage_raises(resp)
               THEN /\ Raise
                    /\ UNCHANGED <<usage, account_usage, stdout_last, stdout_kinds,
                                   pg_caller, page, results, served>>
               ELSE /\ usage' = call
                    /\ account_usage' = su
                    /\ IF ~Formattable(call.ret[2])
                       THEN \* lines 234/236: {cpu_usage:.2f}
                            /\ Raise
                            /\ UNCHANGED <<stdout_last, stdout_kinds, pg_caller, page,
                                           results, served>>
                       ELSE /\ Emit([kind |-> "account_usage", account |-> account,
                                     jobs |-> call.ret[1], cpu |-> call.ret[2],
                                     su |-> su,
                                     with_allocation |-> default_start_used,
                                     allocation |-> allocation])
                            /\ UNCHANGED <<status, exitcode>>
                            /\ IF args.expand
                               THEN StartPaginate("process_account_query")
                               ELSE /\ pc' = "main_return"
                                    /\ UNCHANGED <<pg_caller, page, results, served>>
    /\ UNCHANGED <<args, start_arg, end_arg, default_start_used, times, user, allocation,
                   attr, user_list>>

\* lines 241-259: the body of the loop, for the first record left.
AccountExpandItem ==
    /\ pc = "account_expand_loop" /\ status = "running" /\ user_list # << >>
    /\ LET item == Head(user_list)
           skip == item.user = NoUser
           rest == Tail(user_list)
       IN \E resp \in (IF skip THEN {JobsResponse("none", Missing, Missing, Missing)}
                       ELSE JobsResponses) :
            LET call == UsageCall("account_expand", item.user, args.account, resp)
            IN IF skip
               THEN \* lines 242-243: continue
                    /\ user_list' = rest
                    /\ pc' = LoopOrReturn(rest, "account_expand_loop")
                    /\ UNCHANGED <<status, exitcode, usage, stdout_last, stdout_kinds,
                                   reqlog>>
               ELSE /\ reqlog' = reqlog \cup {Req("jobs", "account_expand")}
                    /\ IF get_cpu_usage_raises(resp)
                       THEN /\ Raise
                            /\ UNCHANGED <<usage, stdout_last, stdout_kinds, user_list>>
                       ELSE /\ usage' = call
                            /\ IF ~Formattable(call.ret[2])
                               THEN /\ Raise
                                    /\ UNCHANGED <<stdout_last, stdout_kinds, user_list>>
                               ELSE /\ Emit(MemberLine(item.user, args.account, call.ret,
                                                       account_usage))
                                    /\ user_list' = rest
                                    /\ pc' = LoopOrReturn(rest, "account_expand_loop")
                                    /\ UNCHANGED <<status, exitcode>>
    /\ UNCHANGED <<args, start_arg, end_arg, default_start_used, times, user, allocation,
                   attr, account_usage, page, results, served, pg_caller>>

\* main returns: the interpreter exits with status 0.
MainReturn ==
    /\ pc = "main_return" /\ status = "running"
    /\ status' = "returned"
    /\ exitcode' = 0
    /\ pc' = "halt"
    /\ UNCHANGED <<args, start_arg, end_arg, default_start_used, times, user, allocation,
                   attr, account_usage, usage, page, results, served, pg_caller,
                   user_list, stdout_last, stdout_kinds, reqlog>>

Next ==
    \/ ResolveWindow
    \/ ValidateWindow
    \/ UserQuery
    \/ PaginateStep
    \/ PaginateReturn
    \/ UserExpandItem
    \/ AccountLookup
    \/ AccountAttr
    \/ AccountUsage
    \/ AccountExpandItem
    \/ MainReturn

Spec == Init /\ [][Next]_vars

(***************************************************************************)
(* The percentage and colour of a member's line (lines 246-259), applied   *)
(* to usage figures drawn from 0..MaxUsage, None and a non-numeric string. *)
(***************************************************************************)
UsageFigures == {Num(n) : n \in 0..MaxUsage} \cup {Null, Str}
AccountFigures == {Num(0), Num(3), Num(4), Num(100), Null, Str}

InitPercent ==
    /\ args = Invocation(NoUser, FC_P, TRUE, NoDate, NoDate, MODE_MYLRC, NowAutumn)
    /\ pc = "percent"
    /\ pg_caller = "none"
    /\ status = "running"
    /\ exitcode = -1
    /\ start_arg = NoDate
    /\ end_arg = NoDate
    /\ default_start_used = FALSE
    /\ times = [set |-> FALSE, START_TIME |-> 0, END_TIME |-> 0,
                START_TIME_READABLE |-> NoDate, END_TIME_READABLE |-> NoDate]
    /\ user = NoUser
    /\ allocation = Missing
    /\ attr = << >>
    /\ account_usage \in AccountFigures
    /\ \E uu \in UsageFigures :
         usage = [by |-> "account_expand", user |-> "bob", account |-> FC_P,
                  failed |-> FALSE, ret |-> <<Num(1), Num(1), uu>>]
    /\ page = 0
    /\ results = << >>
    /\ served = << >>
    /\ user_list = << >>
    /\ stdout_last = [kind |-> "none"]
    /\ stdout_kinds = {}
    /\ reqlog = {}

FormatMember ==
    /\ pc = "percent"
    /\ Emit(MemberLine(usage.user, usage.account, usage.ret, account_usage))
    /\ pc' = "halt"
    /\ UNCHANGED <<args, status, exitcode, start_arg, end_arg, default_start_used, times,
                   user, allocation, attr, account_usage, usage, page, results, served,
                   pg_caller, user_list, reqlog>>

NextPercent == FormatMember

SpecPercent == InitPercent /\ [][NextPercent]_vars

(***************************************************************************)
(* Properties                                                              *)
(***************************************************************************)
UsageKinds == {"user_usage", "user_expand", "account_usage", "account_expand"}
Zeros == <<Num(0), Num(0), Num(0)>>
StartLookup == Req("allocations", "get_project_start")

\* The start > end test of main has been made and has let the run continue.
WindowCheckPassed == times.set /\ times.START_TIME <= times.END_TIME

\* The account's name begins with the prefix "ac_" or "co_".
PrefixAcOrCo(account) ==
    Len(account) >= 3 /\ SubSeq(account, 1, 3) \in {<<"a","c","_">>, <<"c","o","_">>}

\* A page after which paginate_requests asks for the next one.
Continues(resp) == resp.kind = "ok" /\ resp.results # << >> /\ resp.next

RECURSIVE ConcatPages(_, _)
\* The results of the first n responses, in order.
ConcatPages(log, n) ==
    IF n = 0 THEN << >> ELSE ConcatPages(log, n - 1) \o log[n].resp.results

\* C1: paginate_requests asks for pages 1, 2, 3, ... one request each, and returns
\* the concatenation, in page order, of the results of pages 1..k, k being the
\* first page with results and no `next`; a page that fails or is empty ends the
\* loop and only the pages before it are returned.
C1_PaginateConcatenates ==
    /\ \A i \in 1..Len(served) : served[i].page = i
    /\ pc = "paginate_return" =>
          LET k == Len(served)
              last == served[k].resp
          IN /\ k >= 1
             /\ \A j \in 1..(k - 1) : Continues(served[j].resp)
             /\ ~Continues(last)
             /\ results = ConcatPages(served,
                             IF last.kind = "ok" /\ last.results # << >> THEN k ELSE k - 1)

\* C1 witness: three pages, the first two with `next`, returned as page1 ++ page2 ++ page3.
C1_Witness ==
    /\ pc = "paginate_return"
    /\ Len(served) = 3
    /\ served[3].resp.kind = "ok" /\ served[3].resp.results # << >>
    /\ served[1].resp.results # served[2].resp.results
    /\ served[2].resp.results # served[3].resp.results
    /\ results = served[1].resp.results \o served[2].resp.results \o served[3].resp.results

\* C2 as claimed: no request at all is sent before the start > end test has passed.
C2_NoRequestBeforeCheck == ~WindowCheckPassed => reqlog = {}

\* C2 amended: before the start > end test has passed the only request sent is the
\* allocations lookup of get_project_start, sent only when an account is given and
\* the start equals the computed default; no jobs, allocation_users or attributes
\* request and no allocations lookup of process_account_query precedes the test.
C2_OnlyStartLookupBeforeCheck ==
    /\ ~WindowCheckPassed => reqlog \subseteq {StartLookup}
    /\ StartLookup \in reqlog => args.account # NoAccount /\ default_start_used

\* C2 witness: a run rejected for start > end after the start lookup was sent.
C2_Witness ==
    /\ status = "exited"
    /\ stdout_last.kind = "err_start_after_end"
    /\ reqlog = {StartLookup}

\* C3: when the resolved start is after the end, the process exits with code 1, the
\* last line printed is the error carrying both timestamps, and no usage line of
\* any kind has been printed.
C3_StartAfterEndAborts ==
    (times.set /\ to_timestamp(start_arg) > to_timestamp(end_arg)) =>
        /\ status = "exited" /\ exitcode = 1
        /\ stdout_last.kind = "err_start_after_end"
        /\ stdout_last.start = to_timestamp(start_arg)
        /\ stdout_last.end = to_timestamp(end_arg)
        /\ stdout_kinds \cap UsageKinds = {}

\* C3 witness: the start came from the allocation lookup and is after the end.
C3_Witness ==
    /\ times.set /\ times.START_TIME > times.END_TIME
    /\ args.start = NoDate /\ args.account # NoAccount /\ start_arg # NoDate
    /\ StartLookup \in reqlog
    /\ status = "exited"

\* C4: a failed jobs request gives (0, 0, 0) with an account filter and (-1, -1, -1)
\* for a user without one; process_user_query then prints "User not found" and no
\* usage or expansion line for the user, while a successful answer of zero usage
\* prints the usage line with zeros.
C4_FailureAggregateAndSentinel ==
    /\ (usage.by # "none" /\ usage.failed) =>
          /\ usage.account # NoAccount => usage.ret = Zeros
          /\ (usage.user # NoUser /\ usage.account = NoAccount) => usage.ret = Sentinel
    /\ (usage.by = "process_user_query" /\ usage.failed) =>
          "err_user_not_found" \in stdout_kinds
    /\ stdout_last.kind = "err_user_not_found" =>
          stdout_last.user = user
    /\ "err_user_not_found" \in stdout_kinds =>
          /\ stdout_kinds \cap {"user_usage", "user_expand"} = {}
          /\ Req("allocation_users", "process_user_query") \notin reqlog
          /\ Req("jobs", "user_expand") \notin reqlog
    /\ (usage.by = "process_user_query" /\ ~usage.failed /\ usage.ret = Zeros) =>
          /\ "user_usage" \in stdout_kinds
          /\ stdout_last.kind = "user_usage" => stdout_last.ret = Zeros

\* C4 witness: the jobs request of process_user_query failed and the user was reported
\* as not found.
C4_Witness ==
    /\ usage.by = "process_user_query" /\ usage.failed
    /\ usage.ret = Sentinel
    /\ stdout_last.kind = "err_user_not_found"

\* C5: with an allocation and a Service Units attribute found, an ac/co account whose
\* attribute has no usage value exits with code 1 after a backend-error message and
\* prints no account line; an account of another prefix never exits for it, and its
\* line shows the job aggregate's figures; an ac/co line shows the attribute's
\* usage.value as SUs and the job aggregate's job count and CPU time.
C5_UsageSourceByPrefix ==
    attr # << >> =>
        LET a == attr[1]
            acco == PrefixAcOrCo(args.account)
        IN /\ (acco /\ a.usage \in {"missing", "novalue"}) =>
                 /\ status = "exited" /\ exitcode = 1
                 /\ stdout_last.kind = "err_backend"
                 /\ "account_usage" \notin stdout_kinds
           /\ ~acco => status # "exited"
           /\ (usage.by = "process_account_query" /\ stdout_last.kind = "account_usage") =>
                 /\ stdout_last.jobs = usage.ret[1]
                 /\ stdout_last.cpu = usage.ret[2]
                 /\ stdout_last.su = IF acco THEN a.usage_value ELSE usage.ret[3]

\* C5 witness: a co_ account whose attribute has no usage key, exited with the
\* backend error.
C5_Witness ==
    /\ attr # << >> /\ attr[1].usage = "missing"
    /\ args.account = CO_P
    /\ status = "exited" /\ stdout_last.kind = "err_backend"

\* C6: an account whose allocation lookup returns nothing is reported as not found,
\* nothing more is requested or printed for it and the run ends with status 0; a
\* found allocation without a Service Units attribute exits with code 1 after a
\* backend-error message and before any account line; an allocation total that
\* does not parse becomes None, never ends the run, and the account line is printed.
C6_AccountExitStatus ==
    /\ "err_account_not_found" \in stdout_kinds =>
          /\ stdout_last.kind = "err_account_not_found"
          /\ status \in {"running", "returned"}
          /\ status = "running" => pc = "main_return"
          /\ status = "returned" => exitcode = 0
          /\ \A r \in reqlog :
                /\ r.by # "account_expand"
                /\ r.by = "process_account_query" => r.endpoint = "allocations"
          /\ stdout_kinds \cap {"account_usage", "account_expand"} = {}
    /\ (attr = << >> /\ Req("attributes", "process_account_query") \in reqlog) =>
          /\ status = "exited" /\ exitcode = 1
          /\ stdout_last.kind = "err_backend"
          /\ "account_usage" \notin stdout_kinds
    /\ (attr # << >> /\ attr[1].value.t # "num") =>
          /\ allocation = Null
          /\ status = "exited" =>
                PrefixAcOrCo(args.account) /\ attr[1].usage \in {"missing", "novalue"}
          /\ (usage.by = "process_account_query" /\ usage.ret[2].t = "num") =>
                "account_usage" \in stdout_kinds

\* C6 witness: the account was not found and the run ended with status 0.
C6_Witness ==
    /\ "err_account_not_found" \in stdout_kinds
    /\ status = "returned" /\ exitcode = 0

\* C7 as claimed: a run never ends by an exception nobody catches.
C7_NoUncaughtException == status # "raised"

\* C8 as claimed: a start given with -s, whatever its value, is never replaced by
\* the allocation's start date: the window start is the value given.
C8_ExplicitStartKept ==
    (pc # "main" /\ args.start # NoDate) => start_arg = args.start

\* C9: a member's percentage is 100 * usage / account usage, and 0 when the account
\* usage is zero or one of the two is no number; green iff it is below 75, red iff
\* above 100, yellow iff in [75, 100].
C9_PercentageColour ==
    stdout_last.kind = "account_expand" =>
        LET u == stdout_last.ret[3]
            a == stdout_last.account_usage
            p == stdout_last.percentage
            c == stdout_last.colour
            numeric == u.t = "num" /\ a.t = "num" /\ a.v > 0
        IN /\ c \in {"green", "yellow", "red"}
           /\ p[2] > 0
           /\ numeric => p[1] * a.v = 100 * u.v * p[2]
           /\ ~numeric => p[1] = 0
           /\ numeric => ((c = "green") <=> (100 * u.v < 75 * a.v))
           /\ numeric => ((c = "red") <=> (100 * u.v > 100 * a.v))
           /\ numeric => ((c = "yellow") <=>
                             (75 * a.v <= 100 * u.v /\ 100 * u.v <= 100 * a.v))
           /\ ~numeric => c = "green"
           /\ (a = Num(100) /\ u = Num(74)) => c = "green"
           /\ (a = Num(100) /\ u.t = "num" /\ u.v \in 75..100) => c = "yellow"
           /\ (a = Num(100) /\ u.t = "num" /\ u.v >= 101) => c = "red"

\* C9 witness: usage 100 of 100 printed yellow.
C9_Witness ==
    /\ stdout_last.kind = "account_expand"
    /\ stdout_last.ret[3] = Num(100) /\ stdout_last.account_usage = Num(100)
    /\ stdout_last.colour = "yellow"

\* C10 as claimed: no printed usage line carries the (-1, -1, -1) sentinel.
C10_SentinelNeverPrinted ==
    stdout_last.kind \in {"user_usage", "user_expand", "account_expand"} =>
        ~IsSentinel(stdout_last.ret)

====
